---------------------------- MODULE Spec2Model ----------------------------
(***************************************************************************)
(* Model of the Serper MCP server: the advanced query builder              *)
(* (SerperClient.buildAdvancedQuery), the API client (search, scrape,      *)
(* batchSearch), the tool layer (SerperSearchTools), the query validator   *)
(* (QueryValidator), the prompt library (SerperPrompts), and the start of  *)
(* the process and the four request handlers of src/src/index.ts.          *)
(*                                                                         *)
(* A JavaScript string is a sequence of symbols.  A symbol is a single     *)
(* character of user text (" ", "\t", ",", a letter) or one literal        *)
(* fragment of a template of the source ("site:", "OR", "(", ...).  The     *)
(* fragments of the query builder contain no white space and no comma.     *)
(***************************************************************************)
EXTENDS Integers, Sequences, FiniteSets, TLC

VARIABLES
  params,   \* the argument of a call of buildAdvancedQuery
  result,   \* what that call returned
  bphase,   \* "input" before the call, "built" after it
  variant,  \* which revision of index.ts runs: "advanced" or "batch"
  server,   \* the process: its environment, its position, its handlers
  client,   \* the fields of the SerperClient instance
  calls,    \* the requests and client calls of the process, by call id
  san       \* a query put through sanitizeQuery, and through it again

bvars == <<params, result, bphase>>

svars == <<variant, server, client, calls>>

vars == <<params, result, bphase, variant, server, client, calls, san>>

----------------------------------------------------------------------------
(* JavaScript values of an object field *)

\* the field is not a key of the object
Absent == [kind |-> "absent", str |-> <<>>]

\* the field is a key whose value is undefined
Undefined == [kind |-> "undefined", str |-> <<>>]

\* the field holds the string s
Str(s) == [kind |-> "string", str |-> s]

\* a test `!== undefined` in the place of the truthiness test
TruthyPresentOnly(v) == v.kind = "string"

\* ToBoolean(v) as `if (params.site)` applies it: undefined and "" are falsy
Truthy(v) == v.kind = "string" /\ Len(v.str) > 0

\* String(v) as a template literal `${v}` applies it
ToStr(v) == IF v.kind = "string" THEN v.str ELSE <<"undefined">>

----------------------------------------------------------------------------
(* String.prototype helpers *)

\* the characters matched by \s and removed by trim()
WS == {" ", "\t"}

RECURSIVE TrimLeft(_)
TrimLeft(s) ==
  IF s = <<>> THEN <<>>
  ELSE IF Head(s) \in WS THEN TrimLeft(Tail(s)) ELSE s

RECURSIVE TrimRight(_)
TrimRight(s) ==
  IF s = <<>> THEN <<>>
  ELSE IF s[Len(s)] \in WS THEN TrimRight(SubSeq(s, 1, Len(s) - 1)) ELSE s

\* s.trim()
Trim(s) == TrimRight(TrimLeft(s))

\* a replace() that leaves the white space as it is
CollapseWSKeep(s) == s

\* s.replace(/\s+/g, ' '): every maximal run of white space becomes one " "
RECURSIVE CollapseWS(_)
CollapseWS(s) ==
  IF s = <<>> THEN <<>>
  ELSE IF Head(s) \in WS
       THEN <<" ">> \o CollapseWS(TrimLeft(s))
       ELSE <<Head(s)>> \o CollapseWS(Tail(s))

\* index of the first "," of s, 0 when there is none
RECURSIVE FirstComma(_, _)
FirstComma(s, i) ==
  IF i > Len(s) THEN 0
  ELSE IF s[i] = "," THEN i ELSE FirstComma(s, i + 1)

\* s.split(','): the pieces between commas, empty pieces kept
RECURSIVE Split(_)
Split(s) ==
  LET c == FirstComma(s, 1)
  IN IF c = 0 THEN <<s>>
     ELSE <<SubSeq(s, 1, c - 1)>> \o Split(SubSeq(s, c + 1, Len(s)))

\* list.join(sep)
RECURSIVE Join(_, _)
Join(list, sep) ==
  IF list = <<>> THEN <<>>
  ELSE IF Len(list) = 1 THEN list[1]
  ELSE list[1] \o sep \o Join(Tail(list), sep)

\* the arrow function without its trim()
ExcludeTermNoTrim(term) == <<" ", "-">> \o term

\* term => ` -${term.trim()}`
ExcludeTerm(term) == <<" ", "-">> \o Trim(term)

\* the arrow function without its trim()
OrTermNoTrim(term) == term

\* term => term.trim()
OrTerm(term) == Trim(term)

----------------------------------------------------------------------------
(* SerperClient.buildAdvancedQuery *)

\* the operator fields of ISearchParams read by buildAdvancedQuery
PrefixFields ==
  {"site", "filetype", "inurl", "intitle", "related", "cache", "before", "after"}

OpFields == PrefixFields \cup {"exact", "exclude", "or"}

\* the statement with the value trimmed before it is appended
AppendPrefixedTrimmed(query, f, v) ==
  IF Truthy(v) THEN query \o <<" ", f \o ":">> \o Trim(ToStr(v)) ELSE query

\* ` site:${params.site}` and the seven statements of the same shape
AppendPrefixed(query, f, v) ==
  IF Truthy(v) THEN query \o <<" ", f \o ":">> \o ToStr(v) ELSE query

\* ` "${params.exact}"`
AppendExact(query, v) ==
  IF Truthy(v) THEN query \o <<" ", "\"">> \o ToStr(v) \o <<"\"">> ELSE query

\* params.exclude.split(',').map(term => ` -${term.trim()}`).join('')
AppendExclude(query, v) ==
  IF Truthy(v)
  THEN LET terms == Split(v.str)
       IN query \o Join([i \in 1..Len(terms) |-> ExcludeTerm(terms[i])], <<>>)
  ELSE query

\* ` (${params.or.split(',').map(term => term.trim()).join(' OR ')})`
AppendOr(query, v) ==
  IF Truthy(v)
  THEN LET terms == Split(v.str)
       IN query \o <<" ", "(">>
            \o Join([i \in 1..Len(terms) |-> OrTerm(terms[i])], <<" ", "OR", " ">>)
            \o <<")">>
  ELSE query

\* the statements with the two date filters in the other order
QueryBeforeTrimDatesSwapped(p) ==
  LET q0  == CollapseWS(Trim(p.q.str))
      q1  == AppendPrefixed(q0, "site", p.site)
      q2  == AppendPrefixed(q1, "filetype", p.filetype)
      q3  == AppendPrefixed(q2, "inurl", p.inurl)
      q4  == AppendPrefixed(q3, "intitle", p.intitle)
      q5  == AppendPrefixed(q4, "related", p.related)
      q6  == AppendPrefixed(q5, "cache", p.cache)
      q7  == AppendPrefixed(q6, "after", p.after)
      q8  == AppendPrefixed(q7, "before", p.before)
      q9  == AppendExact(q8, p.exact)
      q10 == AppendExclude(q9, p.exclude)
      q11 == AppendOr(q10, p.or)
  IN q11

\* the statements of buildAdvancedQuery in program order, `query` before the
\* closing trim
QueryBeforeTrim(p) ==
  LET q0  == CollapseWS(Trim(p.q.str))
      q1  == AppendPrefixed(q0, "site", p.site)
      q2  == AppendPrefixed(q1, "filetype", p.filetype)
      q3  == AppendPrefixed(q2, "inurl", p.inurl)
      q4  == AppendPrefixed(q3, "intitle", p.intitle)
      q5  == AppendPrefixed(q4, "related", p.related)
      q6  == AppendPrefixed(q5, "cache", p.cache)
      q7  == AppendPrefixed(q6, "before", p.before)
      q8  == AppendPrefixed(q7, "after", p.after)
      q9  == AppendExact(q8, p.exact)
      q10 == AppendExclude(q9, p.exclude)
      q11 == AppendOr(q10, p.or)
  IN q11

\* outcome of a call: the returned string, or the TypeError of
\* `params.q.trim()` when q is no string
Returned(s) == [threw |-> FALSE, value |-> s]

Threw(name) == [threw |-> TRUE, value |-> <<name>>]

\* the builder without its closing trim
buildAdvancedQueryNoTrim(p) ==
  IF p.q.kind # "string" THEN Threw("TypeError")
  ELSE Returned(QueryBeforeTrim(p))

buildAdvancedQuery(p) ==
  IF p.q.kind # "string" THEN Threw("TypeError")
  ELSE Returned(Trim(QueryBeforeTrim(p)))

----------------------------------------------------------------------------
(* Inputs of the query builder *)

\* how many fields of one params object (q included) may hold a value other
\* than the plain one
MaxRich == 1

PlainQ == Str(<<"t">>)

RichQ ==
  { Str(<<>>), Str(<<" ", " ", " ">>), Str(<<" ", "t", "\t", " ", "u", " ">>) }

Plain(f) ==
  IF f \in {"exclude", "or"} THEN Str(<<"a", ",", "b">>) ELSE Str(<<"a">>)

Rich(f) ==
  IF f \in {"exclude", "or"}
  THEN { Undefined, Str(<<>>), Str(<<"a", ",", ",", "b">>),
         Str(<<" ", "a", " ", ",", "b", " ", "c">>) }
  ELSE { Undefined, Str(<<>>), Str(<<" ", "a", " ">>), Str(<<"a", " ", " ", "b">>) }

AllFields == OpFields \cup {"q"}

\* no query is being sanitized
NotSanitizing ==
  [ phase |-> "none",
    raw   |-> <<>>,
    once  |-> [kind |-> "none", name |-> "", msg |-> <<>>],
    twice |-> [kind |-> "none", name |-> "", msg |-> <<>>] ]

NoResult == Threw("none")

RichValues == UNION {Rich(f) : f \in OpFields}

\* a params object as a caller may write it: q, and any subset of the
\* operator fields.  buildAdvancedQuery reads every field by name, so the
\* order in which the caller wrote the keys is no part of the object's state.
InitBuild ==
  /\ \E rich \in {r \in SUBSET OpFields : Cardinality(r) <= MaxRich} :
     \E plain \in SUBSET (OpFields \ rich) :
     \E rv \in [rich -> RichValues] :
     \E q \in {PlainQ} \cup (IF Cardinality(rich) < MaxRich THEN RichQ ELSE {}) :
       /\ \A f \in rich : rv[f] \in Rich(f)
       /\ params = [f \in AllFields |->
                      IF f = "q" THEN q
                      ELSE IF f \in rich THEN rv[f]
                      ELSE IF f \in plain THEN Plain(f)
                      ELSE Absent]
  /\ result = NoResult
  /\ bphase = "input"
  /\ variant = "advanced"
  /\ server = [env |-> Undefined, pc |-> "load", handlers |-> {}]
  /\ client = [apiKey |-> <<>>, baseUrl |-> <<>>]
  /\ calls = <<>>
  /\ san = NotSanitizing

\* client['buildAdvancedQuery'](params)
Build ==
  /\ bphase = "input"
  /\ result' = buildAdvancedQuery(params)
  /\ bphase' = "built"
  /\ UNCHANGED <<params, svars, san>>

NextBuild == Build

SpecBuild == InitBuild /\ [][NextBuild]_vars

----------------------------------------------------------------------------
(* Vocabulary of the properties of the query builder *)

\* a field that is set to a non-empty string
Present(v) == v \notin {Absent, Undefined, Str(<<>>)}

\* the operator order stated for the builder's output
OperatorOrder ==
  <<"site", "filetype", "inurl", "intitle", "related", "cache", "before",
    "after", "exact", "exclude", "or">>

\* the template symbol that opens the token of operator f
Marker(f) ==
  IF f = "exact" THEN "\""
  ELSE IF f = "exclude" THEN "-"
  ELSE IF f = "or" THEN "("
  ELSE f \o ":"

\* position of the first occurrence of symbol x in s, 0 when there is none
RECURSIVE IndexFrom(_, _, _)
IndexFrom(x, s, i) ==
  IF i > Len(s) THEN 0
  ELSE IF s[i] = x THEN i ELSE IndexFrom(x, s, i + 1)

IndexOf(x, s) == IndexFrom(x, s, 1)

IsPrefix(t, s) == Len(t) <= Len(s) /\ SubSeq(s, 1, Len(t)) = t

IsSuffix(t, s) == Len(t) <= Len(s) /\ SubSeq(s, Len(s) - Len(t) + 1, Len(s)) = t

\* t occurs in s from the first occurrence of its first symbol on
StartsAtFirst(t, s) ==
  LET k == IndexOf(t[1], s)
  IN k > 0 /\ k + Len(t) - 1 <= Len(s) /\ SubSeq(s, k, k + Len(t) - 1) = t

\* the white-space separated words of s, in order
RECURSIVE Words(_, _)
Words(s, cur) ==
  IF s = <<>> THEN (IF cur = <<>> THEN <<>> ELSE <<cur>>)
  ELSE IF Head(s) \in WS
       THEN (IF cur = <<>> THEN <<>> ELSE <<cur>>) \o Words(Tail(s), <<>>)
       ELSE Words(Tail(s), cur \o <<Head(s)>>)

RECURSIVE SpaceSeparated(_)
SpaceSeparated(ws) ==
  IF ws = <<>> THEN <<>>
  ELSE IF Len(ws) = 1 THEN ws[1]
  ELSE ws[1] \o <<" ">> \o SpaceSeparated(Tail(ws))

\* the base query with its white space normalised
NormalBase(p) == SpaceSeparated(Words(p.q.str, <<>>))

NoEdgeSpace(s) == s = <<>> \/ (s[1] \notin WS /\ s[Len(s)] \notin WS)

NoDoubleSpace(s) == \A i \in 1..(Len(s) - 1) : ~(s[i] = " " /\ s[i + 1] = " ")

Built == bphase = "built"

OnlyQ(p) == \A f \in OpFields : p[f] = Absent

Without(p, fs) == [f \in AllFields |-> IF f \in fs THEN Absent ELSE p[f]]

----------------------------------------------------------------------------
MarkerSymbols == {Marker(f) : f \in OpFields}

IsMarker(x) == x \in MarkerSymbols

\* the marker symbols operator f puts into the output: one for a prefixed
\* operator and for or, the two quotes of exact, one "-" per exclude term
MarkersOf(f, v) ==
  IF ~Present(v) THEN <<>>
  ELSE IF f = "exact" THEN <<"\"", "\"">>
  ELSE IF f = "exclude" THEN [i \in 1..Len(Split(v.str)) |-> "-"]
  ELSE <<Marker(f)>>

\* the marker symbols of the present operators, taken in OperatorOrder
RECURSIVE ExpectedMarkers(_, _)
ExpectedMarkers(p, i) ==
  IF i > Len(OperatorOrder) THEN <<>>
  ELSE MarkersOf(OperatorOrder[i], p[OperatorOrder[i]]) \o ExpectedMarkers(p, i + 1)

(* C1: whatever subset of operators is present and in whatever order the   *)
(* fields were supplied, the output starts with the normalised base query  *)
(* and the operator tokens follow it in the order site, filetype, inurl,   *)
(* intitle, related, cache, before, after, exact, exclude, or.             *)
C1_OperatorOrder ==
  Built =>
    /\ ~result.threw
    /\ IsPrefix(NormalBase(params), result.value)
    /\ SelectSeq(result.value, IsMarker) = ExpectedMarkers(params, 1)

C1_Witness ==
  /\ Built
  /\ \A f \in OpFields : Present(params[f])
  /\ IndexOf("site:", result.value) = 3
  /\ IndexOf("(", result.value) > IndexOf("-", result.value)

(* C2 as stated: for any well-formed SearchParams the output has no two    *)
(* consecutive spaces and no leading or trailing space.                    *)
C2_NoDoubleSpaceEver ==
  Built => (NoEdgeSpace(result.value) /\ NoDoubleSpace(result.value))

\* no present operator value holds two consecutive spaces or ends with a
\* space, and no comma-separated item of `or` is empty or blank
CleanValues(p) ==
  /\ \A f \in OpFields :
       Present(p[f]) =>
         /\ NoDoubleSpace(p[f].str)
         /\ p[f].str[Len(p[f].str)] # " "
  /\ Present(p["or"]) =>
       \A i \in 1..Len(Split(p["or"].str)) : Trim(Split(p["or"].str)[i]) # <<>>

(* C2 amended: the output never has a leading or trailing space; it has    *)
(* no two consecutive spaces provided no present operator value contains   *)
(* two consecutive spaces or ends with a space and no item of the `or`     *)
(* list is empty or blank.                                                 *)
C2_NoDoubleSpace ==
  Built =>
    /\ NoEdgeSpace(result.value)
    /\ CleanValues(params) => NoDoubleSpace(result.value)

C2_Witness ==
  /\ Built
  /\ CleanValues(params)
  /\ params["exclude"] = Str(<<" ", "a", " ", ",", "b", " ", "c">>)
  /\ Present(params["site"]) /\ Present(params["or"])
  /\ NoDoubleSpace(result.value)

(* C3: an operator field that is absent, undefined or the empty string     *)
(* contributes nothing: no token of it is in the output, and the output    *)
(* equals the output for the same params without that field.               *)
C3_EmptyFieldContributesNothing ==
  Built =>
    LET symbols == {result.value[i] : i \in DOMAIN result.value}
    IN \A f \in OpFields :
         ~Present(params[f]) =>
           /\ Marker(f) \notin symbols
           /\ params[f] # Absent => result = buildAdvancedQuery(Without(params, {f}))

C3_Witness ==
  /\ Built
  /\ params["site"] \in {Undefined, Str(<<>>)}
  /\ Present(params["filetype"]) /\ Present(params["or"])
  /\ IndexOf("filetype:", result.value) = 3

(* C4: with no operator field present the output is the base query with    *)
(* leading and trailing white space removed and every internal run of      *)
(* white space collapsed to one space; an empty or blank base query gives  *)
(* the empty string.                                                       *)
C4_BaseNormalised ==
  (Built /\ OnlyQ(params)) =>
    /\ result = Returned(NormalBase(params))
    /\ (\A i \in 1..Len(params.q.str) : params.q.str[i] \in WS) => result.value = <<>>

C4_Witness ==
  /\ Built
  /\ OnlyQ(params)
  /\ params.q = Str(<<" ", "t", "\t", " ", "u", " ">>)
  /\ result.value = <<"t", " ", "u">>

\* one token ' -<term>' per term, the term trimmed, in input order
RECURSIVE ExcludeTokens(_)
ExcludeTokens(terms) ==
  IF terms = <<>> THEN <<>>
  ELSE <<" ", "-">> \o Trim(Head(terms)) \o ExcludeTokens(Tail(terms))

\* '<t1> OR <t2> OR ...', the terms trimmed, in input order
RECURSIVE OrList(_)
OrList(terms) ==
  IF Len(terms) = 1 THEN Trim(terms[1])
  ELSE Trim(Head(terms)) \o <<" ", "OR", " ">> \o OrList(Tail(terms))

OrGroup(v) == IF Present(v) THEN <<" ", "(">> \o OrList(Split(v.str)) \o <<")">> ELSE <<>>

(* C5: when exclude is present the builder appends, after the tokens of    *)
(* the earlier operators, one token ' -<term>' for each comma-separated    *)
(* term of exclude in input order, the term trimmed; exclude 'a,b' on base *)
(* 't' gives 't -a -b'.                                                    *)
C5_ExcludeTokens ==
  (Built /\ Present(params["exclude"])) =>
    /\ result.value =
         Trim(QueryBeforeTrim(Without(params, {"exclude", "or"}))
                \o ExcludeTokens(Split(params["exclude"].str))
                \o OrGroup(params["or"]))
    /\ (params.q = PlainQ /\ OnlyQ(Without(params, {"exclude"}))
          /\ params["exclude"] = Str(<<"a", ",", "b">>))
         => result.value = <<"t", " ", "-", "a", " ", "-", "b">>

C5_Witness ==
  /\ Built
  /\ params["exclude"] = Str(<<" ", "a", " ", ",", "b", " ", "c">>)
  /\ Present(params["exact"])
  /\ IsSuffix(<<" ", "-", "a", " ", "-", "b", " ", "c">>, result.value)

(* C6: when or is present the builder appends, last, exactly one group     *)
(* ' (<t1> OR <t2> OR ...)' whose terms are the comma-split, trimmed       *)
(* values of or in input order; or 'a,b' on base 't' gives 't (a OR b)'.   *)
C6_OrGroup ==
  (Built /\ Present(params["or"])) =>
    /\ result.value =
         Trim(QueryBeforeTrim(Without(params, {"or"}))
                \o <<" ", "(">> \o OrList(Split(params["or"].str)) \o <<")">>)
    /\ Cardinality({i \in 1..Len(result.value) : result.value[i] = "("}) = 1
    /\ (params.q = PlainQ /\ OnlyQ(Without(params, {"or"}))
          /\ params["or"] = Str(<<"a", ",", "b">>))
         => result.value = <<"t", " ", "(", "a", " ", "OR", " ", "b", ")">>

C6_Witness ==
  /\ Built
  /\ params["or"] = Str(<<" ", "a", " ", ",", "b", " ", "c">>)
  /\ Present(params["exclude"])
  /\ IsSuffix(<<" ", "(", "a", " ", "OR", " ", "b", " ", "c", ")">>, result.value)

\* the token of a present operator as the templates write it
VerbatimToken(f, v) ==
  IF f = "exact" THEN <<"\"">> \o v.str \o <<"\"">> ELSE <<f \o ":">> \o v.str

(* C7 as stated: the builder raises no exception and copies every present  *)
(* operator value into the output verbatim behind its prefix, the exact    *)
(* phrase wrapped in double quotes unchanged.                              *)
C7_AlwaysVerbatim ==
  Built =>
    /\ ~result.threw
    /\ \A f \in PrefixFields \cup {"exact"} :
         Present(params[f]) => StartsAtFirst(VerbatimToken(f, params[f]), result.value)

(* C7 amended: the builder raises no exception and validates nothing:      *)
(* every present operator value is copied verbatim behind its prefix,      *)
(* except that a value that ends the output loses its trailing white space *)
(* to the closing trim; the exact phrase is wrapped in double quotes       *)
(* unchanged.                                                              *)
C7_VerbatimUpToFinalTrim ==
  Built =>
    /\ ~result.threw
    /\ \A f \in PrefixFields \cup {"exact"} :
         Present(params[f]) =>
           \/ StartsAtFirst(VerbatimToken(f, params[f]), result.value)
           \/ /\ f # "exact"
              /\ IsSuffix(<<f \o ":">> \o TrimRight(params[f].str), result.value)
              /\ \A g \in OpFields \ {f} :
                   Present(params[g]) =>
                     IndexOf(Marker(g), result.value) < IndexOf(Marker(f), result.value)

C7_Witness ==
  /\ Built
  /\ params["before"] = Str(<<" ", "a", " ">>)
  /\ Present(params["site"]) /\ Present(params["exact"])
  /\ StartsAtFirst(<<"before:", " ", "a", " ", " ", "\"">>, result.value)

----------------------------------------------------------------------------
(* Values crossing the layers: arguments, inputs, outcomes *)

\* an array value; items is the sequence of its elements
List(items) == [kind |-> "list", str |-> items]

\* the fields of the object a tool-layer or client operation receives
InputFields == AllFields \cup {"gl", "hl", "url", "queries"}

\* the keys the prompt templates read from their argument record
PromptArgFields ==
  {"topic", "depth", "focus_areas", "min_sources", "claim", "thoroughness",
   "tech_stack", "content_type", "time_range", "perspective"}

\* the keys the handlers read from request.params.arguments
ArgFields == InputFields \cup {"query"} \cup PromptArgFields

NoInput == [f \in InputFields |-> Absent]

\* no outcome yet
None == [kind |-> "none", name |-> "", msg |-> <<>>]

\* a promise fulfilled with value v
Ok(v) == [kind |-> "ok", name |-> "", msg |-> v]

\* a thrown error object with its name and message
Error(name, msg) == [kind |-> "err", name |-> name, msg |-> msg]

\* new Error(msg)
NewError(msg) == Error("Error", msg)

\* `${error}`: Error.prototype.toString gives "<name>: <message>"
ErrToString(e) == <<e.name \o ": ">> \o e.msg

\* JSON.stringify(object): keys whose value is undefined are left out
Stringify(input) ==
  [f \in InputFields |-> IF input[f] = Undefined THEN Absent ELSE input[f]]

\* the ids of the calls the process handles; both may be in flight at once
CallIds == {"c1", "c2"}

\* longest array of a batch call
MaxBatch == 2

\* HTTP status codes the upstream answers with
Statuses == {200, 404, 500}

\* response.ok
IsOk(status) == status \in 200..299

----------------------------------------------------------------------------
(* SerperClient: the synchronous part of each operation, up to its fetch() *)

\* what the synchronous part of an operation ends with: a rejection, or a
\* request handed to fetch()
Rejected(e) == [err |-> e, endpoint |-> "", sent |-> NoInput]

Fetching(endpoint, sent) == [err |-> None, endpoint |-> endpoint, sent |-> sent]

\* SerperClient.search down to the call of fetch
ClientSearchStart(input) ==
  LET built == buildAdvancedQuery(input)
  IN IF built.threw THEN Rejected(Error(built.value[1], <<"q.trim is not a function">>))
     ELSE Fetching("search", Stringify([input EXCEPT !["q"] = Str(built.value)]))

\* scrape without the test of params.url
ClientScrapeStartNoCheck(input) == Fetching("scrape", Stringify(input))

\* SerperClient.scrape down to the call of fetch
ClientScrapeStart(input) ==
  IF ~Truthy(input["url"]) THEN Rejected(NewError(<<"URL is required for scraping">>))
  ELSE Fetching("scrape", Stringify(input))

\* SerperClient.batchSearch down to the call of fetch
ClientBatchStart(input) ==
  IF input["queries"].kind # "list" \/ Len(input["queries"].str) = 0
  THEN Rejected(NewError(<<"non-empty batch required">>))
  ELSE Fetching("search", Stringify(input))

ClientStart(op, input) ==
  IF op = "search" THEN ClientSearchStart(input)
  ELSE IF op = "scrape" THEN ClientScrapeStart(input)
  ELSE ClientBatchStart(input)

\* throw new Error(`Serper API error: ${status} ${statusText} - ${errorText}`)
HttpError(status) ==
  NewError(<<"Serper API error: ", ToString(status), " ", "statusText", " - ", "errorText">>)

\* the rejection of fetch(): the request did not get a response
TransportError == Error("FetchError", <<"request failed">>)

\* the rejection of response.text(): the body could not be read
BodyError == Error("FetchError", <<"body stream failed">>)

\* the rejection of response.json(): the body is no JSON
ParseError == Error("FetchError", <<"invalid json response body">>)

----------------------------------------------------------------------------
(* SerperSearchTools: the catch blocks of the tool layer *)

\* a catch block that drops the error it caught
ToolCatchDropsCause(op, input, e) ==
  IF op = "search"
  THEN NewError(<<"SearchTool: failed to search for \"">> \o ToStr(input["q"]) \o <<"\". ">>)
  ELSE IF op = "scrape" THEN NewError(<<"SearchTool: failed to scrape. ">>)
  ELSE NewError(<<"SearchTool: failed to batch search. ">>)

\* throw new Error(`SearchTool: failed to ... ${error}`)
ToolCatch(op, input, e) ==
  IF op = "search"
  THEN NewError(<<"SearchTool: failed to search for \"">> \o ToStr(input["q"])
                  \o <<"\". ">> \o ErrToString(e))
  ELSE IF op = "scrape" THEN NewError(<<"SearchTool: failed to scrape. ">> \o ErrToString(e))
  ELSE NewError(<<"SearchTool: failed to batch search. ">> \o ErrToString(e))

\* a catch block that returns an empty result in the place of the throw
ToolOutcomeSwallows(op, input, clientOut) ==
  IF clientOut.kind = "err" THEN Ok(<<>>) ELSE clientOut

\* SerperSearchTools.search / scrape / batchSearch: the outcome of the
\* operation given the outcome of the client operation it awaited
ToolOutcome(op, input, clientOut) ==
  IF clientOut.kind = "err" THEN ToolCatch(op, input, clientOut) ELSE clientOut

----------------------------------------------------------------------------
(* index.ts: the CallToolRequestSchema handler *)

\* what the handler does before it awaits the tool layer: it throws, or it
\* calls operation op of the tool layer with input
Throws(e) == [err |-> e, op |-> "none", input |-> NoInput]

Calls(op, input) == [err |-> None, op |-> op, input |-> input]

RequiredError == NewError(<<"Search query and region code and language are required">>)

UnknownTool == NewError(<<"Unknown tool">>)

\* a destructured or `as string | undefined` argument: a missing key reads
\* as undefined
Read(a, f) == IF a[f] = Absent THEN Undefined ELSE a[f]

\* case "google_search" of the revision with the advanced operators
GoogleSearchAdvanced(a) ==
  IF ~Truthy(a["q"]) \/ ~Truthy(a["gl"]) \/ ~Truthy(a["hl"]) THEN Throws(RequiredError)
  ELSE Calls("search",
             [f \in InputFields |->
                IF f \in {"q", "gl", "hl"} THEN Str(ToStr(a[f]))
                ELSE IF f \in OpFields THEN Read(a, f)
                ELSE Absent])

\* case "google_search" of the revision with the batch tool
GoogleSearchBatch(a) ==
  LET q == Str(ToStr(a["query"]))
  IN IF ~Truthy(q) \/ ~Truthy(a["gl"]) \/ ~Truthy(a["hl"]) THEN Throws(RequiredError)
     ELSE Calls("search",
                [f \in InputFields |->
                   IF f = "q" THEN q
                   ELSE IF f \in {"gl", "hl"} THEN a[f]
                   ELSE Absent])

\* case "batch_google_search"
BatchGoogleSearch(a) == Calls("batchSearch", [NoInput EXCEPT !["queries"] = Read(a, "queries")])

\* case "scrape"
Scrape(a) == Calls("scrape", [NoInput EXCEPT !["url"] = Read(a, "url")])

\* a switch with the case "batch_google_search" in both revisions
RouteUnlistedBatch(v, name, a) ==
  IF name = "google_search"
  THEN (IF v = "advanced" THEN GoogleSearchAdvanced(a) ELSE GoogleSearchBatch(a))
  ELSE IF name = "batch_google_search" THEN BatchGoogleSearch(a)
  ELSE IF name = "scrape" THEN Scrape(a)
  ELSE Throws(UnknownTool)

\* switch (request.params.name)
Route(v, name, a) ==
  IF name = "google_search"
  THEN (IF v = "advanced" THEN GoogleSearchAdvanced(a) ELSE GoogleSearchBatch(a))
  ELSE IF name = "batch_google_search" /\ v = "batch" THEN BatchGoogleSearch(a)
  ELSE IF name = "scrape" THEN Scrape(a)
  ELSE Throws(UnknownTool)

\* a catch block that drops the error it caught
HandlerOutcomeDropsCause(name, toolOut) ==
  IF toolOut.kind = "err" /\ name = "google_search"
  THEN NewError(<<"Search failed: ">>)
  ELSE toolOut

\* a handler that returns the results of a batch without the last one
HandlerOutcomePartial(name, toolOut) ==
  IF toolOut.kind = "err" /\ name = "google_search"
  THEN NewError(<<"Search failed: ">> \o ErrToString(toolOut))
  ELSE IF toolOut.kind = "ok" /\ name = "batch_google_search"
  THEN Ok(SubSeq(toolOut.msg, 1, Len(toolOut.msg) - 1))
  ELSE toolOut

\* the outcome of the handler given the outcome of the tool-layer operation
\* it awaited: only case "google_search" has a catch block
HandlerOutcome(name, toolOut) ==
  IF toolOut.kind = "err" /\ name = "google_search"
  THEN NewError(<<"Search failed: ">> \o ErrToString(toolOut))
  ELSE toolOut

----------------------------------------------------------------------------
(* utils/query-validator.ts: QueryValidator *)

\* the longest sanitized query validateSearchParams accepts
MaxQueryLength == 500

Quotes == {"\"", "'"}

\* the symbols of a query outside the class [\w\s\-"'@.:/]
ProblemSymbols == {",", "(", ")", "!"}

IsKept(x) == x \notin ProblemSymbols

\* s.replace(/"{2,}/g, '"') for the quote x: a run of x becomes one x
RECURSIVE CollapseRuns(_, _)
CollapseRuns(s, x) ==
  IF Len(s) < 2 THEN s
  ELSE IF s[1] = x /\ s[2] = x THEN CollapseRuns(Tail(s), x)
  ELSE <<Head(s)>> \o CollapseRuns(Tail(s), x)

\* s.replace(/^["']|["']$/g, ""): one quote off each end
StripEdgeQuotes(s) ==
  LET t == IF s # <<>> /\ Head(s) \in Quotes THEN Tail(s) ELSE s
  IN IF t # <<>> /\ t[Len(t)] \in Quotes THEN SubSeq(t, 1, Len(t) - 1) ELSE t

\* the chain of replacements of sanitizeQuery, for a non-empty string
Sanitized(s) ==
  Trim(StripEdgeQuotes(SelectSeq(
         CollapseRuns(CollapseRuns(CollapseWS(Trim(s)), "\""), "'"), IsKept)))

\* QueryValidator.sanitizeQuery
sanitizeQuery(v) ==
  IF ~Truthy(v) THEN NewError(<<"Query must be a non-empty string">>)
  ELSE Ok(Sanitized(v.str))

\* the length of a string in characters: each symbol counts its characters
RECURSIVE Length(_)
Length(s) == IF s = <<>> THEN 0 ELSE Len(Head(s)) + Length(Tail(s))

\* QueryValidator.validateSearchParams: the error it throws, None when it
\* returns
validateSearchParams(p) ==
  IF ~Truthy(p["q"])
  THEN NewError(<<"Query parameter \"q\" is required and must be a string">>)
  ELSE LET sanitizedQuery == sanitizeQuery(p["q"]).msg
       IN IF Length(sanitizedQuery) = 0
          THEN NewError(<<"Query cannot be empty after sanitization">>)
          ELSE IF Length(sanitizedQuery) > MaxQueryLength
          THEN NewError(<<"Query is too long (max 500 characters)">>)
          ELSE None

----------------------------------------------------------------------------
(* index.ts: module initialisation and main() *)

\* process.env.SERPER_API_KEY: not set, set to '', set to a key
EnvKeys == {Undefined, Str(<<>>), Str(<<"key">>)}

\* the default of the constructor's parameter baseUrl
DefaultBaseUrl == <<"https://google.serper.dev">>

\* the URL scrape() posts to
ScrapeUrl == <<"https://scrape.serper.dev">>

\* no SerperClient has been constructed
NoClient == [apiKey |-> <<>>, baseUrl |-> <<>>]

\* new SerperClient(apiKey): this.apiKey = apiKey; this.baseUrl = baseUrl
NewClient(apiKey) == [apiKey |-> apiKey, baseUrl |-> DefaultBaseUrl]

\* the requests the revision calls server.setRequestHandler for
Handlers(v) ==
  IF v = "advanced" THEN {"list_tools", "call_tool", "list_prompts", "get_prompt"}
  ELSE {"list_tools", "call_tool"}

\* the names of the tools the ListToolsRequestSchema handler returns
ListTools(v) ==
  IF v = "advanced" THEN <<"google_search", "scrape">>
  ELSE <<"google_search", "batch_google_search", "scrape">>

\* the process before its module is evaluated, with the environment it got
Loading(env) == [env |-> env, pc |-> "load", handlers |-> {}]

\* the process can run code: it has neither thrown at start nor exited
Running == server.pc \in {"connecting", "serving"}

\* the host's request of the given kind reaches a handler
Serves(kind) == server.pc = "serving" /\ kind \in server.handlers

\* module initialisation without the test of the key
StartNoKeyCheck ==
  /\ server.pc = "load"
  /\ client' = NewClient(ToStr(server.env))
  /\ server' = [server EXCEPT !.pc = "connecting", !.handlers = Handlers(variant)]
  /\ UNCHANGED <<variant, calls, bvars, san>>

\* the module is evaluated: without the key it throws at once; with it the
\* client is constructed, the handlers are registered and main() awaits
\* server.connect(transport)
Start ==
  /\ server.pc = "load"
  /\ IF ~Truthy(server.env)
     THEN /\ server' = [server EXCEPT !.pc = "crashed"]
          /\ client' = client
     ELSE /\ client' = NewClient(server.env.str)
          /\ server' = [server EXCEPT !.pc = "connecting", !.handlers = Handlers(variant)]
  /\ UNCHANGED <<variant, calls, bvars, san>>

\* server.connect(transport) resolves: the host's requests are dispatched
ConnectResolve ==
  /\ server.pc = "connecting"
  /\ server' = [server EXCEPT !.pc = "serving"]
  /\ UNCHANGED <<variant, client, calls, bvars, san>>

\* server.connect(transport) rejects: main().catch logs and exits
ConnectReject ==
  /\ server.pc = "connecting"
  /\ server' = [server EXCEPT !.pc = "exited"]
  /\ UNCHANGED <<variant, client, calls, bvars, san>>

----------------------------------------------------------------------------
(* prompts/index.ts: SerperPrompts *)

\* a number value, held as its decimal digits
Num(n) == [kind |-> "number", str |-> <<ToString(n)>>]

\* the keys of PROMPTS, in the order of the object literal
PROMPTS == <<"research-topic", "compare-sources", "fact-check", "technical-search">>

\* properties the object literal PROMPTS inherits from Object.prototype
ObjectPrototypeKeys == {"constructor", "toString"}

\* PROMPTS[name] is truthy: name is a key of the literal or an inherited
\* property
PromptFound(name) ==
  (\E i \in DOMAIN PROMPTS : PROMPTS[i] = name) \/ name \in ObjectPrototypeKeys

\* a destructuring default `{ x = d } = args`: d replaces undefined only
Default(v, d) == IF v.kind \in {"absent", "undefined"} THEN d ELSE v

\* `v.length > 0` for a string or an array
HasLength(v) == v.kind \in {"string", "list"} /\ Len(v.str) > 0

\* `${v}` for the values of an argument record
Template(v) ==
  IF v.kind \in {"string", "number"} THEN v.str
  ELSE IF v.kind = "list" THEN Join(v.str, <<",">>)
  ELSE <<"undefined">>

\* v.join is not a function: v has a length but is no array
JoinTypeError(f) == Error("TypeError", <<f, ".join is not a function">>)

\* return { messages: [{ role: "user", content: { type: "text", text } }] }
UserMessage(text) == Ok(<< <<"user">> \o text >>)

getResearchTopicPrompt(a) ==
  LET topic == Read(a, "topic")
      depth == Default(a["depth"], Str(<<"basic">>))
      focus_areas == Default(a["focus_areas"], List(<<>>))
      focusAreasText ==
        IF HasLength(focus_areas)
        THEN <<"\nFocus specifically on these areas: ">> \o Join(focus_areas.str, <<", ">>)
        ELSE <<>>
      depthText ==
        IF depth = Str(<<"detailed">>)
        THEN <<"\nProvide detailed analysis and comprehensive coverage.">>
        ELSE <<"\nProvide a basic overview and key points.">>
  IN IF HasLength(focus_areas) /\ focus_areas.kind # "list" THEN JoinTypeError("focus_areas")
     ELSE UserMessage(<<"Research the topic: ">> \o Template(topic) \o focusAreasText
                        \o depthText \o <<"\n\nOrganize the findings into: ...">>)

getCompareSourcesPrompt(a) ==
  LET topic == Read(a, "topic")
      min_sources == Default(a["min_sources"], Num(3))
  IN UserMessage(<<"Compare at least ">> \o Template(min_sources)
                   \o <<" different sources on: ">> \o Template(topic)
                   \o <<"\n\nAnalyze: ...">>)

getFactCheckPrompt(a) ==
  LET claim == Read(a, "claim")
      thoroughness == Default(a["thoroughness"], Str(<<"quick">>))
      depth ==
        IF thoroughness = Str(<<"thorough">>)
        THEN <<"\nPerform a comprehensive fact-check using multiple authoritative sources.">>
        ELSE <<"\nQuickly verify the main points using reliable sources.">>
  IN UserMessage(<<"Fact check this claim: \"">> \o Template(claim) \o <<"\"">> \o depth
                   \o <<"\n\nProvide: ...">>)

getNewsAnalysisPrompt(a) ==
  LET topic == Read(a, "topic")
      time_range == Read(a, "time_range")
      perspective == Default(a["perspective"], Str(<<"balanced">>))
      timeFilter ==
        IF Truthy(time_range) THEN <<"\nFocus on coverage from: ">> \o Template(time_range)
        ELSE <<>>
      perspectiveGuide ==
        IF perspective = Str(<<"all">>)
        THEN <<"\nInclude all viewpoints and perspectives in the analysis.">>
        ELSE <<"\nFocus on balanced, factual coverage from reliable sources.">>
  IN UserMessage(<<"Analyze news coverage of: ">> \o Template(topic) \o timeFilter
                   \o perspectiveGuide \o <<"\n\nProvide: ...">>)

getTechnicalSearchPrompt(a) ==
  LET query == Read(a, "query")
      tech_stack == Default(a["tech_stack"], List(<<>>))
      content_type == Default(a["content_type"], Str(<<"all">>))
      techContext ==
        IF HasLength(tech_stack) THEN <<"\nFocus on: ">> \o Join(tech_stack.str, <<", ">>)
        ELSE <<>>
      contentFocus ==
        IF content_type # Str(<<"all">>)
        THEN <<"\nPrioritize ">> \o Template(content_type) \o <<" in the results.">>
        ELSE <<>>
  IN IF HasLength(tech_stack) /\ tech_stack.kind # "list" THEN JoinTypeError("tech_stack")
     ELSE UserMessage(<<"Technical search for: ">> \o Template(query) \o techContext
                        \o contentFocus \o <<"\n\nOrganize results into: ...">>)

\* SerperPrompts.getPrompt
getPrompt(name, a) ==
  IF ~PromptFound(name) THEN NewError(<<"Prompt not found: ", name>>)
  ELSE IF name = "research-topic" THEN getResearchTopicPrompt(a)
  ELSE IF name = "compare-sources" THEN getCompareSourcesPrompt(a)
  ELSE IF name = "fact-check" THEN getFactCheckPrompt(a)
  ELSE IF name = "news-analysis" THEN getNewsAnalysisPrompt(a)
  ELSE IF name = "technical-search" THEN getTechnicalSearchPrompt(a)
  ELSE NewError(<<"Prompt implementation not found">>)

----------------------------------------------------------------------------
(* The calls of the process *)

\* a call that has not been made yet
IdleCall ==
  [ pc         |-> "idle",     \* idle, fetch, text, json, returned, failed
    entry      |-> "",         \* the handler that was called, or "client"
    name       |-> "",         \* request.params.name
    args       |-> [f \in ArgFields |-> Absent],
    op         |-> "none",     \* the client operation: search, scrape, batchSearch
    toolInput  |-> NoInput,    \* what the tool-layer operation received
    clientInput |-> NoInput,   \* what the client operation received
    requests   |-> 0,          \* calls of fetch() made for this call
    endpoint   |-> "",
    url        |-> <<>>,       \* the URL of the request, without the path
    key        |-> <<>>,       \* the X-API-KEY header of the request
    sent       |-> NoInput,    \* the JSON body of the request
    status     |-> 0,          \* response.status, 0 before the response
    read       |-> "none",     \* the body: none, text, json, failed
    clientOut  |-> None,       \* outcome of the client operation
    toolOut    |-> None,       \* outcome of the tool-layer operation
    handlerOut |-> None ]      \* outcome of the call_tool handler

\* the client operation of call k settles with outcome out; the tool layer
\* and the handler that await it settle in the same turn
Settled(k, out) ==
  LET tool == IF k.entry = "call_tool" THEN ToolOutcome(k.op, k.toolInput, out) ELSE None
      hand == IF k.entry = "call_tool" THEN HandlerOutcome(k.name, tool) ELSE None
  IN [k EXCEPT !.pc = IF out.kind = "ok" THEN "returned" ELSE "failed",
               !.clientOut = out, !.toolOut = tool, !.handlerOut = hand]

\* a client that keeps the query it built in an instance field and builds
\* the next query onto it
ClientCalledShared(k, op, input) ==
  LET earlier == {d \in CallIds : calls[d].op = "search" /\ calls[d].requests > 0}
      kept == IF op = "search" /\ earlier # {} /\ input["q"].kind = "string"
              THEN [input EXCEPT !["q"] =
                      Str(calls[CHOOSE d \in earlier : TRUE].sent["q"].str
                            \o <<" ">> \o input["q"].str)]
              ELSE input
      start == ClientStart(op, kept)
      k1 == [k EXCEPT !.op = op, !.clientInput = input]
  IN IF start.err.kind = "err" THEN Settled(k1, start.err)
     ELSE [k1 EXCEPT !.pc = "fetch", !.requests = k.requests + 1,
                     !.endpoint = start.endpoint, !.sent = start.sent,
                     !.url = IF op = "scrape" THEN ScrapeUrl ELSE client.baseUrl,
                     !.key = client.apiKey]

\* the client operation op is called with input for call k: it rejects at
\* once or it calls fetch and suspends
ClientCalled(k, op, input) ==
  LET start == ClientStart(op, input)
      k1 == [k EXCEPT !.op = op, !.clientInput = input]
  IN IF start.err.kind = "err" THEN Settled(k1, start.err)
     ELSE [k1 EXCEPT !.pc = "fetch", !.requests = k.requests + 1,
                     !.endpoint = start.endpoint, !.sent = start.sent,
                     !.url = IF op = "scrape" THEN ScrapeUrl ELSE client.baseUrl,
                     !.key = client.apiKey]

\* the argument objects a host sends with a call of a tool
Args(q, query, gl, hl, site, url, queries) ==
  [f \in ArgFields |->
     IF f = "q" THEN q ELSE IF f = "query" THEN query
     ELSE IF f = "gl" THEN gl ELSE IF f = "hl" THEN hl
     ELSE IF f = "site" THEN site ELSE IF f = "url" THEN url
     ELSE IF f = "queries" THEN queries ELSE Absent]

\* a query of one word, one character longer than MaxQueryLength
Word10 == "tttttttttt"

Word100 ==
  Word10 \o Word10 \o Word10 \o Word10 \o Word10 \o Word10 \o Word10 \o Word10
    \o Word10 \o Word10

LongQuery == Str(<<Word100 \o Word100 \o Word100 \o Word100 \o Word100 \o "t">>)

\* a query of white space only
BlankQuery == Str(<<" ", " ">>)

\* a query of the characters sanitizeQuery removes
ProblemQuery == Str(<<"!", "!">>)

SearchArgs ==
  { Args(q, query, gl, hl, site, Absent, Absent) :
      q \in {Absent, Str(<<>>), Str(<<"t">>)}, query \in {Absent, Str(<<"v">>)},
      gl \in {Absent, Str(<<"us">>)}, hl \in {Absent, Str(<<"en">>)},
      site \in {Absent, Str(<<"a">>)} }
  \cup
  { Args(q, q, Str(<<"us">>), Str(<<"en">>), Absent, Absent, Absent) :
      q \in {LongQuery, BlankQuery, ProblemQuery} }

Urls == {Absent, Str(<<>>), Str(<<"u">>)}

ScrapeArgs == { Args(Absent, Absent, Absent, Absent, Absent, url, Absent) : url \in Urls }

\* arrays of at most MaxBatch search params, each given by its q
Batches ==
  { List(l) : l \in UNION { [1..n -> {<<"t">>, <<"v">>}] : n \in 0..MaxBatch } }

BatchArgs == { Args(Absent, Absent, Absent, Absent, Absent, Absent, b) : b \in Batches }

ToolNames == {"google_search", "batch_google_search", "scrape", "other"}

ArgsFor(name) ==
  IF name = "google_search" THEN SearchArgs
  ELSE IF name = "batch_google_search" THEN BatchArgs
  ELSE IF name = "scrape" THEN ScrapeArgs
  ELSE {Args(Absent, Absent, Absent, Absent, Absent, Absent, Absent)}

\* an argument record with the given keys
Record(r) == [f \in ArgFields |-> IF f \in DOMAIN r THEN r[f] ELSE Absent]

\* the names a host asks a prompt for
PromptNames ==
  {"research-topic", "compare-sources", "fact-check", "technical-search",
   "news-analysis", "constructor", "other"}

\* the argument records a host sends with a get_prompt request
PromptArgsFor(name) ==
  IF name = "research-topic"
  THEN { Record([topic |-> t, depth |-> d, focus_areas |-> f]) :
           t \in {Absent, Str(<<"t">>)},
           d \in {Absent, Str(<<"basic">>), Str(<<"detailed">>)},
           f \in {Absent, List(<<>>), List(<< <<"x">>, <<"y">> >>), Str(<<"x">>)} }
  ELSE IF name = "compare-sources"
  THEN { Record([topic |-> t, min_sources |-> m]) :
           t \in {Absent, Str(<<"t">>)},
           m \in {Absent, Num(3), Num(5), Str(<<"3">>)} }
  ELSE IF name = "fact-check"
  THEN { Record([claim |-> t, thoroughness |-> d]) :
           t \in {Absent, Str(<<"t">>)},
           d \in {Absent, Str(<<"quick">>), Str(<<"thorough">>)} }
  ELSE IF name = "technical-search"
  THEN { Record([query |-> Str(<<"v">>), tech_stack |-> s, content_type |-> d]) :
           s \in {Absent, List(<< <<"x">> >>), Str(<<"x">>)},
           d \in {Absent, Str(<<"all">>), Str(<<"docs">>)} }
  ELSE {Record([topic |-> Str(<<"t">>)])}

\* the inputs of the direct calls of the client, as its tests make them
ClientInputs(op) ==
  IF op = "search"
  THEN { [NoInput EXCEPT !["q"] = q] : q \in {Str(<<>>), Str(<<"t">>)} }
  ELSE IF op = "scrape" THEN { [NoInput EXCEPT !["url"] = u] : u \in Urls }
  ELSE { [NoInput EXCEPT !["queries"] = b] : b \in Batches }

Init ==
  /\ variant \in {"advanced", "batch"}
  /\ \E env \in EnvKeys : server = Loading(env)
  /\ client = NoClient
  /\ calls = [c \in CallIds |-> IdleCall]
  /\ params = [f \in AllFields |-> IF f = "q" THEN PlainQ ELSE Absent]
  /\ result = NoResult
  /\ bphase = "input"
  /\ san = NotSanitizing

\* the parsed body of the upstream's answer to the request of call k, as the
\* contract of the API gives it: a search result echoes its query, the answer
\* to an array is the array of the results, a scrape result is the page
ResultOf(q) == <<"result for ">> \o ToStr(q)

Body(k) ==
  IF k.op = "search" THEN ResultOf(k.sent["q"])
  ELSE IF k.op = "scrape" THEN <<"page of ">> \o ToStr(k.sent["url"])
  ELSE [i \in DOMAIN k.sent["queries"].str |-> ResultOf(Str(k.sent["queries"].str[i]))]

\* a handler that gives the tool call a deadline: it throws when the deadline
\* passes while the request of the client is still pending
CallToolWithDeadline(c, name, a) ==
  /\ Serves("call_tool")
  /\ calls[c].pc = "idle"
  /\ LET r == Route(variant, name, a)
         k == [calls[c] EXCEPT !.entry = "call_tool", !.name = name, !.args = a]
         started == ClientCalled([k EXCEPT !.toolInput = r.input], r.op, r.input)
     IN calls' = [calls EXCEPT ![c] =
                    IF r.err.kind = "err"
                    THEN [k EXCEPT !.pc = "failed", !.handlerOut = r.err]
                    ELSE IF started.pc = "fetch"
                    THEN [started EXCEPT !.handlerOut = NewError(<<"deadline exceeded">>)]
                    ELSE started]
  /\ UNCHANGED <<variant, server, client, bvars, san>>

\* the host sends a call_tool request: the handler runs down to its first
\* suspension, the fetch of the client, or throws before
CallTool(c, name, a) ==
  /\ Serves("call_tool")
  /\ calls[c].pc = "idle"
  /\ LET r == Route(variant, name, a)
         k == [calls[c] EXCEPT !.entry = "call_tool", !.name = name, !.args = a]
     IN calls' = [calls EXCEPT ![c] =
                    IF r.err.kind = "err"
                    THEN [k EXCEPT !.pc = "failed", !.handlerOut = r.err]
                    ELSE ClientCalled([k EXCEPT !.toolInput = r.input], r.op, r.input)]
  /\ UNCHANGED <<variant, server, client, bvars, san>>

\* a caller holding the client calls one of its operations
ClientCall(c, op, input) ==
  /\ Running
  /\ calls[c].pc = "idle"
  /\ calls' = [calls EXCEPT ![c] = ClientCalled([calls[c] EXCEPT !.entry = "client"], op, input)]
  /\ UNCHANGED <<variant, server, client, bvars, san>>

\* fetch() resolves with a response of the given status
FetchResolve(c, status) ==
  /\ Running
  /\ calls[c].pc = "fetch"
  /\ calls' = [calls EXCEPT ![c].status = status,
                            ![c].pc = IF IsOk(status) THEN "json" ELSE "text"]
  /\ UNCHANGED <<variant, server, client, bvars, san>>

\* a rejection of fetch() answered by a second fetch() of the same request
FetchRejectRetries(c) ==
  /\ Running
  /\ calls[c].pc = "fetch"
  /\ calls' = [calls EXCEPT ![c] =
                 IF calls[c].requests < 2
                 THEN [calls[c] EXCEPT !.requests = calls[c].requests + 1]
                 ELSE Settled(calls[c], TransportError)]
  /\ UNCHANGED <<variant, server, client, bvars, san>>

\* fetch() rejects: no response
FetchReject(c) ==
  /\ Running
  /\ calls[c].pc = "fetch"
  /\ calls' = [calls EXCEPT ![c] = Settled(calls[c], TransportError)]
  /\ UNCHANGED <<variant, server, client, bvars, san>>

\* response.text() resolves: the operation throws the error with the status
TextResolve(c) ==
  /\ Running
  /\ calls[c].pc = "text"
  /\ calls' = [calls EXCEPT ![c] =
                 Settled([calls[c] EXCEPT !.read = "text"], HttpError(calls[c].status))]
  /\ UNCHANGED <<variant, server, client, bvars, san>>

\* response.text() rejects
TextReject(c) ==
  /\ Running
  /\ calls[c].pc = "text"
  /\ calls' = [calls EXCEPT ![c] = Settled([calls[c] EXCEPT !.read = "failed"], BodyError)]
  /\ UNCHANGED <<variant, server, client, bvars, san>>

\* response.json() resolves: the operation returns the parsed body
JsonResolve(c) ==
  /\ Running
  /\ calls[c].pc = "json"
  /\ calls' = [calls EXCEPT ![c] = Settled([calls[c] EXCEPT !.read = "json"], Ok(Body(calls[c])))]
  /\ UNCHANGED <<variant, server, client, bvars, san>>

\* response.json() rejects
JsonReject(c) ==
  /\ Running
  /\ calls[c].pc = "json"
  /\ calls' = [calls EXCEPT ![c] = Settled([calls[c] EXCEPT !.read = "failed"], ParseError)]
  /\ UNCHANGED <<variant, server, client, bvars, san>>

\* the host sends a list_tools request
ListToolsRequest(c) ==
  /\ Serves("list_tools")
  /\ calls[c].pc = "idle"
  /\ calls' = [calls EXCEPT ![c] =
                 [calls[c] EXCEPT !.entry = "list_tools", !.pc = "returned",
                                  !.handlerOut = Ok(ListTools(variant))]]
  /\ UNCHANGED <<variant, server, client, bvars, san>>

\* the host sends a list_prompts request: prompts.listPrompts()
ListPromptsRequest(c) ==
  /\ Serves("list_prompts")
  /\ calls[c].pc = "idle"
  /\ calls' = [calls EXCEPT ![c] =
                 [calls[c] EXCEPT !.entry = "list_prompts", !.pc = "returned",
                                  !.handlerOut = Ok(PROMPTS)]]
  /\ UNCHANGED <<variant, server, client, bvars, san>>

\* the host sends a get_prompt request:
\* prompts.getPrompt(request.params.name, request.params.arguments || {})
GetPromptRequest(c, name, a) ==
  /\ Serves("get_prompt")
  /\ calls[c].pc = "idle"
  /\ LET out == getPrompt(name, a)
     IN calls' = [calls EXCEPT ![c] =
                    [calls[c] EXCEPT !.entry = "get_prompt", !.name = name, !.args = a,
                                     !.pc = IF out.kind = "ok" THEN "returned" ELSE "failed",
                                     !.handlerOut = out]]
  /\ UNCHANGED <<variant, server, client, bvars, san>>

Next ==
  \/ Start
  \/ ConnectResolve
  \/ ConnectReject
  \/ \E c \in CallIds : ListToolsRequest(c)
  \/ \E c \in CallIds : ListPromptsRequest(c)
  \/ \E c \in CallIds : \E name \in PromptNames :
       \E a \in PromptArgsFor(name) : GetPromptRequest(c, name, a)
  \/ \E c \in CallIds : \E name \in ToolNames : \E a \in ArgsFor(name) : CallTool(c, name, a)
  \/ \E c \in CallIds : \E op \in {"search", "scrape", "batchSearch"} :
       \E input \in ClientInputs(op) : ClientCall(c, op, input)
  \/ \E c \in CallIds : \E status \in Statuses : FetchResolve(c, status)
  \/ \E c \in CallIds : FetchReject(c)
  \/ \E c \in CallIds : TextResolve(c)
  \/ \E c \in CallIds : TextReject(c)
  \/ \E c \in CallIds : JsonResolve(c)
  \/ \E c \in CallIds : JsonReject(c)

Spec == Init /\ [][Next]_vars

----------------------------------------------------------------------------
(* Vocabulary of the properties of the calls *)

Symbols(msg) == {msg[i] : i \in DOMAIN msg}

\* the call has settled: it returned or it failed
IsSettled(k) == k.pc \in {"returned", "failed"}

\* the call went through the tool layer
ThroughTools(k) == k.entry = "call_tool" /\ k.op # "none"

\* the upstream answered the call with a non-success status
GotHttpError(k) == k.status # 0 /\ ~IsOk(k.status)

\* the message of outcome out contains the status code of call k
HasStatus(k, out) == out.kind = "err" /\ ToString(k.status) \in Symbols(out.msg)

StatusSurfaced(k) ==
  /\ HasStatus(k, k.clientOut)
  /\ k.entry = "call_tool" => (HasStatus(k, k.toolOut) /\ HasStatus(k, k.handlerOut))

ContextFragment(op) ==
  IF op = "search" THEN "SearchTool: failed to search for \""
  ELSE IF op = "scrape" THEN "SearchTool: failed to scrape. "
  ELSE "SearchTool: failed to batch search. "

ContextFragments == {ContextFragment(op) : op \in {"search", "scrape", "batchSearch"}}

ContextLayers(msg) == Cardinality({i \in DOMAIN msg : msg[i] \in ContextFragments})

\* outcome tool wraps outcome cause with one layer of context for op
WrapsWithContext(k, tool, cause) ==
  /\ tool.kind = "err"
  /\ IsSuffix(cause.msg, tool.msg)
  /\ Len(tool.msg) > Len(cause.msg)
  /\ tool.msg[1] = ContextFragment(k.op)
  /\ ContextLayers(tool.msg) = ContextLayers(cause.msg) + 1
  /\ k.op = "search" =>
       SubSeq(tool.msg, 2, 1 + Len(k.toolInput["q"].str)) = k.toolInput["q"].str

(* C9: the tool layer forwards its input unchanged to the client           *)
(* operation; whenever the client operation fails (HTTP error, transport   *)
(* failure, parse failure, validation rejection) the tool-layer operation  *)
(* fails too and never returns a value, with an error that adds one layer  *)
(* of context naming the operation and, for search, the query string, and  *)
(* that keeps the message of the underlying error.                         *)
C9_ToolLayerRethrows ==
  \A c \in CallIds :
    ThroughTools(calls[c]) =>
      /\ calls[c].clientInput = calls[c].toolInput
      /\ calls[c].clientOut.kind = "err" =>
           /\ calls[c].pc = "failed"
           /\ WrapsWithContext(calls[c], calls[c].toolOut, calls[c].clientOut)
           /\ calls[c].handlerOut.kind = "err"
      /\ calls[c].toolOut.kind = "ok" => calls[c].clientOut.kind = "ok"

C9_Witness ==
  /\ calls["c1"].name = "google_search" /\ calls["c1"].clientOut = ParseError
  /\ calls["c1"].toolOut.kind = "err"
  /\ calls["c2"].name = "scrape" /\ calls["c2"].requests = 0
  /\ calls["c2"].clientOut.kind = "err" /\ calls["c2"].toolOut.kind = "err"

\* the call is a scrape whose URL is missing or empty
ScrapeWithoutUrl(k) ==
  \/ k.entry = "call_tool" /\ k.name = "scrape" /\ ~Present(k.args["url"])
  \/ k.entry = "client" /\ k.op = "scrape" /\ ~Present(k.clientInput["url"])

(* C10: a scrape call whose URL is missing or empty, made through the      *)
(* client or through call_tool 'scrape', is rejected and no HTTP request   *)
(* is issued for it.                                                       *)
C10_ScrapeNeedsUrl ==
  \A c \in CallIds :
    ScrapeWithoutUrl(calls[c]) =>
      /\ calls[c].pc = "failed"
      /\ calls[c].requests = 0
      /\ calls[c].clientOut.kind = "err"
      /\ calls[c].entry = "call_tool" => calls[c].handlerOut.kind = "err"

C10_Witness ==
  /\ calls["c1"].entry = "client" /\ calls["c1"].op = "scrape"
  /\ calls["c1"].clientInput["url"] = Str(<<>>) /\ calls["c1"].pc = "failed"
  /\ calls["c2"].entry = "call_tool" /\ calls["c2"].name = "scrape"
  /\ calls["c2"].args["url"] = Absent /\ calls["c2"].pc = "failed"
  /\ calls["c2"].requests = 0

\* the call is a batch search over an empty list
EmptyBatch(k) == k.op = "batchSearch" /\ k.clientInput["queries"] = List(<<>>)

(* C11: batchSearch called with an empty list rejects with a 'non-empty    *)
(* batch required' error and no HTTP request is issued for it; through     *)
(* call_tool the tool layer and the handler fail with that error as cause. *)
C11_EmptyBatchRejects ==
  \A c \in CallIds :
    EmptyBatch(calls[c]) =>
      /\ calls[c].pc = "failed"
      /\ calls[c].requests = 0
      /\ calls[c].clientOut = NewError(<<"non-empty batch required">>)
      /\ calls[c].entry = "call_tool" =>
           /\ calls[c].toolOut.kind = "err"
           /\ IsSuffix(<<"non-empty batch required">>, calls[c].toolOut.msg)
           /\ calls[c].handlerOut = calls[c].toolOut

C11_Witness ==
  /\ calls["c1"].entry = "client" /\ EmptyBatch(calls["c1"])
  /\ calls["c1"].pc = "failed"
  /\ calls["c2"].entry = "call_tool" /\ calls["c2"].name = "batch_google_search"
  /\ EmptyBatch(calls["c2"]) /\ calls["c2"].pc = "failed" /\ calls["c2"].requests = 0

\* the arguments carry no query text under either key, or no region code,
\* or no language code
LacksRequired(a) ==
  \/ ~Present(a["q"]) /\ ~Present(a["query"])
  \/ ~Present(a["gl"])
  \/ ~Present(a["hl"])

(* C12: a call_tool 'google_search' request whose arguments lack the query *)
(* text, the region code or the language code (missing or empty) fails     *)
(* with the required-fields error before the tool layer is invoked, so no  *)
(* HTTP request is issued for it.                                          *)
C12_RequiredFieldsChecked ==
  \A c \in CallIds :
    (calls[c].entry = "call_tool" /\ calls[c].name = "google_search"
       /\ LacksRequired(calls[c].args))
      => /\ calls[c].handlerOut = RequiredError
         /\ calls[c].op = "none"
         /\ calls[c].requests = 0

\* the query satisfies the invariant of SearchParams: validateSearchParams
\* accepts it
ValidQuery(v) ==
  /\ v.kind = "string"
  /\ Length(Sanitized(v.str)) \in 1..MaxQueryLength

\* the query text of a google_search request, under the key the revision reads
QueryText(v, a) == IF v = "advanced" THEN a["q"] ELSE a["query"]

(* C13: every query that reaches the external search API satisfies the     *)
(* invariant of SearchParams, its sanitized form non-empty and at most 500 *)
(* characters long; a google_search request whose query is too long or     *)
(* empty after sanitization fails with a validation error before any HTTP  *)
(* request is issued.                                                      *)
C13_QueriesValidated ==
  \A c \in CallIds :
    /\ (calls[c].entry = "call_tool" /\ calls[c].op = "search" /\ calls[c].requests > 0)
         => ValidQuery(calls[c].sent["q"])
    /\ (calls[c].entry = "call_tool" /\ calls[c].name = "google_search"
          /\ Present(QueryText(variant, calls[c].args))
          /\ ~ValidQuery(QueryText(variant, calls[c].args)))
         => /\ calls[c].requests = 0
            /\ calls[c].pc = "failed"
            /\ calls[c].handlerOut = validateSearchParams([q |-> QueryText(variant, calls[c].args)])

\* the call failed on an upstream HTTP error or on a transport failure
UpstreamFailure(k) ==
  k.pc = "failed" /\ (GotHttpError(k) \/ k.clientOut = TransportError)

(* C14: each tool call (google_search, batch_google_search, scrape) issues *)
(* at most one HTTP request over its whole lifetime: after an upstream     *)
(* HTTP error or a transport failure the call has failed with exactly one  *)
(* request sent, and no second request is ever sent.                       *)
C14_AtMostOneRequest ==
  \A c \in CallIds :
    calls[c].entry = "call_tool" =>
      /\ calls[c].requests <= 1
      /\ UpstreamFailure(calls[c]) =>
           (calls[c].requests = 1 /\ calls[c].handlerOut.kind = "err")
      /\ calls[c].pc \in {"fetch", "text", "json", "returned"} => calls[c].requests = 1

C14_Witness ==
  /\ calls["c1"].name = "google_search" /\ calls["c1"].clientOut = TransportError
  /\ calls["c1"].pc = "failed" /\ calls["c1"].requests = 1
  /\ calls["c2"].name = "batch_google_search" /\ calls["c2"].status = 500
  /\ calls["c2"].pc = "failed" /\ calls["c2"].requests = 1

\* the tool names a list_tools response carries
Listed(out) == {out.msg[i] : i \in DOMAIN out.msg}

\* the tool-layer operation a tool name stands for
OperationOf(name) ==
  IF name = "google_search" THEN "search"
  ELSE IF name = "batch_google_search" THEN "batchSearch"
  ELSE name

\* call k is dispatched as its name says: to the operation of the tool
\* layer if the name is listed, to the unknown-tool error if it is not
DispatchedPer(k, listed) ==
  /\ (k.name \notin listed) <=> (k.handlerOut.kind = "err" /\ k.handlerOut = UnknownTool)
  /\ k.name \notin listed => (k.op = "none" /\ k.requests = 0 /\ k.pc = "failed")
  /\ k.name \in listed =>
       \/ k.op = OperationOf(k.name) /\ k.clientInput = k.toolInput
       \/ k.name = "google_search" /\ k.op = "none" /\ k.handlerOut = RequiredError

(* C15: call_tool fails with an unknown-tool error, without invoking the   *)
(* tool layer or the network, exactly for the names that list_tools does   *)
(* not return; every tool name returned by list_tools is dispatched to a   *)
(* tool-layer operation.                                                   *)
C15_UnknownToolIffUnlisted ==
  \A c \in CallIds :
    /\ calls[c].entry = "call_tool" =>
         DispatchedPer(calls[c], Listed(Ok(ListTools(variant))))
    /\ calls[c].entry = "list_tools" =>
         \A d \in CallIds :
           calls[d].entry = "call_tool" => DispatchedPer(calls[d], Listed(calls[c].handlerOut))

C15_Witness ==
  /\ variant = "advanced"
  /\ calls["c1"].entry = "list_tools" /\ calls["c1"].pc = "returned"
  /\ calls["c2"].entry = "call_tool" /\ calls["c2"].name = "batch_google_search"
  /\ calls["c2"].handlerOut = UnknownTool /\ calls["c2"].op = "none"

\* the names of the registered templates
Registered == {PROMPTS[i] : i \in DOMAIN PROMPTS}

(* C16: getPrompt called with a name that is not a registered template     *)
(* fails with a 'template not found' error naming the requested prompt and *)
(* returns no message.                                                     *)
C16_UnknownPromptNotFound ==
  \A c \in CallIds :
    (calls[c].entry = "get_prompt" /\ calls[c].name \notin Registered)
      => /\ calls[c].pc = "failed"
         /\ calls[c].handlerOut = NewError(<<"Prompt not found: ", calls[c].name>>)

\* the defaults stated for the optional arguments of the templates
StatedDefaults(name) ==
  IF name = "research-topic" THEN [depth |-> Str(<<"basic">>)]
  ELSE IF name = "compare-sources" THEN [min_sources |-> Num(3)]
  ELSE IF name = "fact-check" THEN [thoroughness |-> Str(<<"quick">>)]
  ELSE [none |-> Absent]

\* the argument record a with every omitted optional argument of the
\* template supplied as its stated default
WithDefaults(name, a) ==
  [f \in ArgFields |->
     IF f \in DOMAIN StatedDefaults(name) /\ a[f] = Absent
     THEN StatedDefaults(name)[f] ELSE a[f]]

\* the outcome is exactly one message and its role is 'user'
OneUserMessage(out) ==
  out.kind = "ok" /\ Len(out.msg) = 1 /\ out.msg[1][1] = "user"

\* omitting the optional arguments gives what their defaults give
DefaultsAsStated(k) == k.handlerOut = getPrompt(k.name, WithDefaults(k.name, k.args))

(* C17: getPrompt for a registered template returns exactly one message    *)
(* with role 'user'; omitting an optional argument gives the same message  *)
(* as supplying its default explicitly (depth 'basic', min_sources 3,      *)
(* thoroughness 'quick'); repeated calls with the same name and arguments  *)
(* give the same result.                                                   *)
C17_OneUserMessageWithDefaults ==
  \A c \in CallIds :
    (calls[c].entry = "get_prompt" /\ calls[c].name \in Registered)
      => /\ OneUserMessage(calls[c].handlerOut)
         /\ DefaultsAsStated(calls[c])
         /\ \A d \in CallIds :
              (calls[d].entry = "get_prompt" /\ calls[d].name = calls[c].name
                 /\ calls[d].args = calls[c].args)
                => calls[d].handlerOut = calls[c].handlerOut

\* the requests a host can make of the process
RequestKinds == {"list_tools", "call_tool", "list_prompts", "get_prompt"}

(* C18: when the API key is absent from the environment at startup,        *)
(* startup fails before any request handler is registered and before the   *)
(* transport is connected, so the process never serves a list_tools,       *)
(* call_tool, list_prompts or get_prompt request.                          *)
C18_NoKeyNoService ==
  ~Present(server.env) =>
    /\ server.pc \in {"load", "crashed"}
    /\ server.handlers = {}
    /\ client = NoClient
    /\ \A c \in CallIds : calls[c].entry \notin RequestKinds /\ calls[c].pc = "idle"

C18_Witness ==
  /\ server.env = Undefined
  /\ server.pc = "crashed"
  /\ server.handlers = {}

\* the call is a batch search over a list of at least one params
NonEmptyBatch(k) ==
  /\ k.op = "batchSearch"
  /\ k.clientInput["queries"].kind = "list"
  /\ Len(k.clientInput["queries"].str) >= 1

\* out is a result sequence with one result per query, result i answering
\* query i
AlignedWith(out, queries) ==
  /\ out.kind = "ok"
  /\ Len(out.msg) = Len(queries)
  /\ \A i \in DOMAIN queries :
       out.msg[i][1] = "result for " /\ Tail(out.msg[i]) = queries[i]

Constructed == [apiKey |-> server.env.str, baseUrl |-> DefaultBaseUrl]

\* the request of call k carries the constructed key, goes to the URL of
\* its operation and its body is made of the call's own input
OwnRequest(k) ==
  k.requests > 0 =>
    /\ k.key = Constructed.apiKey
    /\ k.url = (IF k.op = "scrape" THEN ScrapeUrl ELSE Constructed.baseUrl)
    /\ k.sent = Stringify(IF k.op = "search"
                          THEN [k.clientInput EXCEPT
                                  !["q"] = Str(buildAdvancedQuery(k.clientInput).value)]
                          ELSE k.clientInput)

\* the outcome of call k is the one its own input, its own request and its
\* own response give
OwnOutcome(k) ==
  IsSettled(k) =>
    /\ k.requests = 0 => k.clientOut = ClientStart(k.op, k.clientInput).err
    /\ (k.requests = 1 /\ k.status = 0) => k.clientOut = TransportError
    /\ k.read = "text" => k.clientOut = HttpError(k.status)
    /\ k.read = "json" => k.clientOut = Ok(Body(k))
    /\ k.read = "failed" => k.clientOut = (IF IsOk(k.status) THEN ParseError ELSE BodyError)
    /\ k.entry = "call_tool" =>
         /\ k.toolOut = ToolOutcome(k.op, k.toolInput, k.clientOut)
         /\ k.handlerOut = HandlerOutcome(k.name, k.toolOut)

(* C20: under any interleaving of concurrently dispatched tool calls on    *)
(* one client instance, the API key and the base URL keep the values set   *)
(* at construction, and the outcome of each call (request body sent,       *)
(* result or error returned) depends only on that call's own arguments and *)
(* its own HTTP response, never on another in-flight call.                 *)
C20_CallsIndependent ==
  /\ client # NoClient => client = Constructed
  /\ \A c \in CallIds :
       calls[c].op # "none" => (OwnRequest(calls[c]) /\ OwnOutcome(calls[c]))

C20_Witness ==
  /\ client = Constructed
  /\ calls["c1"].name = "google_search" /\ calls["c1"].pc = "json"
  /\ calls["c1"].sent["q"] = Str(<<"t", " ", "site:", "a">>)
  /\ calls["c2"].name = "google_search" /\ calls["c2"].pc = "failed"
  /\ calls["c2"].sent["q"] = Str(<<"t">>) /\ calls["c2"].status = 404

----------------------------------------------------------------------------
\* Suspension of a tool call on its HTTP request

\* the network events of call c: the request's fetch() and the read of the
\* response's body settle
NetworkEvent(c) ==
  \/ \E status \in Statuses : FetchResolve(c, status)
  \/ FetchReject(c)
  \/ TextResolve(c)
  \/ TextReject(c)
  \/ JsonResolve(c)
  \/ JsonReject(c)

\* every awaited promise of the client (fetch(), response.text(),
\* response.json()) settles, and the event loop then resumes the operation that
\* awaits it
NetworkCompletes == \A c \in CallIds : WF_vars(NetworkEvent(c))

SpecLive == Init /\ [][Next]_vars /\ NetworkCompletes

\* call k has issued its request and the response is not wholly received
Pending(k) == k.pc \in {"fetch", "text", "json"}

ToolCall(k) == k.entry = "call_tool"

\* the handler of call k has returned a result or thrown an error
Completed(k) == k.handlerOut.kind \in {"ok", "err"}

\* C21: a tool call that has issued its HTTP request has no outcome at any
\* layer while the request is pending; only an event of its own request (the
\* settlement of fetch() or of the read of the body) moves it on: no timeout,
\* no cancellation, no other call does; and once the request completes, the
\* call completes with a result or an error.
C21_SuspendedUntilRequestCompletes ==
  /\ [](\A c \in CallIds :
          ToolCall(calls[c]) /\ Pending(calls[c])
            => /\ calls[c].requests = 1
               /\ calls[c].clientOut = None
               /\ calls[c].toolOut = None
               /\ calls[c].handlerOut = None)
  /\ [][\A c \in CallIds :
          ToolCall(calls[c]) /\ Pending(calls[c]) /\ calls'[c] # calls[c]
            => /\ NetworkEvent(c)
               /\ Pending(calls'[c]) \/ Completed(calls'[c])]_vars
  /\ \A c \in CallIds : []<>(ToolCall(calls[c]) => ~Pending(calls[c]))

\* a tool call whose request was pending has completed with the result of the
\* request, and another with the error of its own
C21_Witness ==
  \E c, d \in CallIds :
    /\ ToolCall(calls[c]) /\ calls[c].requests = 1 /\ calls[c].read = "json"
    /\ calls[c].handlerOut.kind = "ok"
    /\ ToolCall(calls[d]) /\ calls[d].requests = 1 /\ calls[d].status = 0
    /\ calls[d].handlerOut.kind = "err"

----------------------------------------------------------------------------
\* Arguments that satisfy the advertised schema of google_search

\* the arguments have the fields the input schema requires (q, gl, hl), each a
\* non-empty string
SatisfiesSearchSchema(a) == Present(a["q"]) /\ Present(a["gl"]) /\ Present(a["hl"])

\* C22: a call_tool 'google_search' request whose arguments satisfy the input
\* schema list_tools advertises is never rejected with the required-fields
\* error, and the base query the tool layer receives is the q that was
\* supplied.
C22_SchemaArgumentsForwarded ==
  \A c \in CallIds :
    (calls[c].entry = "call_tool" /\ calls[c].name = "google_search"
       /\ SatisfiesSearchSchema(calls[c].args))
      => /\ calls[c].handlerOut # RequiredError
         /\ calls[c].op = "search"
         /\ calls[c].toolInput["q"] = calls[c].args["q"]

----------------------------------------------------------------------------
\* Prompts rendered from the arguments of the protocol

\* every argument the host supplied is a string, as get_prompt delivers them
StringArguments(a) == \A f \in ArgFields : a[f] # Absent => a[f].kind = "string"

\* the names getPrompt renders a message for, for some arguments of a host
Renderable ==
  {name \in PromptNames : \E a \in PromptArgsFor(name) : getPrompt(name, a).kind = "ok"}

\* C23: for every prompt name listPrompts returns and every argument record
\* whose values are strings (focus_areas and tech_stack included), getPrompt
\* returns a rendered message and does not fail; and the names getPrompt
\* renders are the names listPrompts returns.
C23_ListedPromptsRender ==
  \A c \in CallIds :
    /\ (calls[c].entry = "get_prompt" /\ calls[c].name \in Registered
          /\ StringArguments(calls[c].args))
         => OneUserMessage(calls[c].handlerOut)
    /\ (calls[c].entry = "get_prompt" /\ calls[c].handlerOut.kind = "ok")
         => calls[c].name \in Registered
    /\ (calls[c].entry = "list_prompts" /\ calls[c].pc = "returned")
         => Listed(calls[c].handlerOut) = Renderable

----------------------------------------------------------------------------
\* QueryValidator.sanitizeQuery applied to its own result

MaxQuery == 5

\* the characters of the queries: a word character, white space, the two
\* quotes, and a character outside the class sanitizeQuery keeps
QueryAlphabet == {"a", " ", "\"", "'", "!"}

Queries == UNION { [1..n -> QueryAlphabet] : n \in 0..MaxQuery }

InitSanitize ==
  /\ \E q \in Queries : san = [NotSanitizing EXCEPT !.phase = "input", !.raw = q]
  /\ params = [f \in AllFields |-> IF f = "q" THEN PlainQ ELSE Absent]
  /\ result = NoResult
  /\ bphase = "input"
  /\ variant = "advanced"
  /\ server = [env |-> Undefined, pc |-> "load", handlers |-> {}]
  /\ client = [apiKey |-> <<>>, baseUrl |-> <<>>]
  /\ calls = <<>>

\* QueryValidator.sanitizeQuery(query)
Sanitize ==
  /\ san.phase = "input"
  /\ san' = [san EXCEPT !.phase = "once", !.once = sanitizeQuery(Str(san.raw))]
  /\ UNCHANGED <<bvars, svars>>

\* QueryValidator.sanitizeQuery(s) for the s the first call returned
SanitizeAgain ==
  /\ san.phase = "once"
  /\ san.once.kind = "ok"
  /\ san' = [san EXCEPT !.phase = "twice", !.twice = sanitizeQuery(Str(san.once.msg))]
  /\ UNCHANGED <<bvars, svars>>

NextSanitize == Sanitize \/ SanitizeAgain

SpecSanitize == InitSanitize /\ [][NextSanitize]_vars

\* s has two white-space characters in a row
HasSpaceRun(s) == \E i \in 1..(Len(s) - 1) : s[i] \in WS /\ s[i + 1] \in WS

\* s has the same quote character twice in a row
HasQuoteRun(s) == \E i \in 1..(Len(s) - 1) : s[i] \in Quotes /\ s[i + 1] = s[i]

HasProblemSymbol(s) == \E i \in 1..Len(s) : s[i] \in ProblemSymbols

HasEdgeQuote(s) == s # <<>> /\ (s[1] \in Quotes \/ s[Len(s)] \in Quotes)

\* C24: sanitizeQuery is idempotent: for every non-empty string q on which it
\* returns a non-empty s, sanitizeQuery(s) is s; so s has no run of white
\* space, no repeated quote character, no disallowed character and no quote
\* at either end.
C24_SanitizeIdempotent ==
  (san.phase \in {"once", "twice"} /\ san.raw # <<>>
     /\ san.once.kind = "ok" /\ san.once.msg # <<>>)
    => /\ san.phase = "twice" => san.twice = san.once
       /\ ~HasSpaceRun(san.once.msg)
       /\ ~HasQuoteRun(san.once.msg)
       /\ ~HasProblemSymbol(san.once.msg)
       /\ ~HasEdgeQuote(san.once.msg)

=============================================================================
